---- MODULE Spec2Model ----
(***************************************************************************)
(* Canvas state synchronisation of ExcalidrawCanvas.tsx and the IndexedDB  *)
(* cache of storage/indexedDBService.ts: the live Excalidraw surface, the  *)
(* singleton cache record and the remote canvas service, driven by the     *)
(* startup restore, the poll interval or the Tauri event listener, the     *)
(* onChange callback and its timers.                                       *)
(*                                                                         *)
(* Time is the value of Date.now() in milliseconds.  A timer fires at or   *)
(* after its deadline and before the clock moves on; IndexedDB requests    *)
(* the surface's change notification and the delivery of an emitted event  *)
(* complete before the clock moves on; network responses take any time.    *)
(***************************************************************************)
EXTENDS Integers, Sequences, FiniteSets, TLC

\* ---- program constants -------------------------------------------------
EchoDelay == 100        \* setTimeout(() => isUpdatingFromRestore = false, 100)
DebounceDelay == 300    \* setTimeout(save, 300)
PollPeriod == 1000      \* setInterval(poll, 1000)

\* ---- bounds of the model -----------------------------------------------
MaxDoc == 1             \* distinct non-empty element lists: 1..MaxDoc
MaxTicks == 2           \* steps of the clock
MaxEdits == 2           \* user edits of the live surface
MaxRemoteWrites == 1    \* writes other clients make to the remote service
MaxEmits == 2           \* excalidraw_draw events the host emits
MaxInFlight == 2        \* poll requests outstanding at once

TimeStep == EchoDelay \div 2
StartTime == 2 * TimeStep

\* ---- documents ---------------------------------------------------------
\* An element list is abstracted to a number: 0 is the empty array [],
\* 1..MaxDoc are distinct non-empty arrays, NotArray is an elements field
\* that is absent (undefined/null).
NotArray == 0 - 1
ElemLists == 0..MaxDoc
RemoteElems == ElemLists \cup {NotArray}

\* A document on the live surface: its elements and whether every element
\* carries the fields handleCanvasUpdate fills in (norm); of an empty list
\* every element does.
Doc(els, norm) == [els |-> els, norm |-> (norm \/ els = 0)]
EmptyDoc == Doc(0, TRUE)
SurfaceDocs == {Doc(e, n) : e \in ElemLists, n \in BOOLEAN}

\* The record of the object store 'canvasData' under key 'current'.
NoRecord == [present |-> FALSE, els |-> 0, norm |-> FALSE, ts |-> 0]
Record(els, norm, ts) == [present |-> TRUE, els |-> els, norm |-> norm, ts |-> ts]

NoTimer == [set |-> FALSE, due |-> 0, doc |-> EmptyDoc]
NoBackend == [has |-> FALSE, els |-> 0, ts |-> 0]
NoObs == [els |-> 0, ts |-> 0]
NoPoll == 0

VARIABLES
  now,                    \* Date.now()
  isTauri,                \* window.__TAURI__ present: push mode, else poll mode
  mounted,                \* the component is mounted (its effects' cleanups have not run)
  released,               \* unlisten() has been called
  dbOpens,                \* indexedDB.open succeeds in this session
  apiRef,                 \* apiRef.current is set (the surface is mounted)
  isInitialized,          \* React state isInitialized
  initPc,                 \* position of initializeStorage
  initResp,               \* the startup GET /canvas response in flight
  backendData,            \* local variable backendData of initializeStorage
  surface,                \* the scene held by the Excalidraw surface
  echoPending,            \* the change notification the surface owes: "none", or the
                          \* updateScene it reacts to ("restore", "update")
  isUpdatingFromRestore,  \* isUpdatingFromRestore.current
  flagTimers,             \* deadlines of the pending 100 ms timers
  saveTimeoutRef,         \* the pending debounce timer and what its closure captured
  lastSaveDataRef,        \* lastSaveDataRef.current
  cache,                  \* the IndexedDB record
  dbQueue,                \* IndexedDB requests issued and not yet completed
  remoteEls, remoteTs,    \* the remote service's canvas: elements, updated_at
  remoteWrites,           \* number of remote writes so far
  pollNext,               \* deadline of the next poll tick
  lastUpdateTime,         \* local variable lastUpdateTime of the poll effect
  inflight,               \* responses of outstanding poll requests
  listening,              \* the excalidraw_draw listener is registered
  pushQueue,              \* emitted excalidraw_draw events not yet delivered
  emits,                  \* number of events emitted so far
  edits,                  \* number of user edits so far
  ticks,                  \* number of clock steps so far
  lastObs,                \* history: the observation handleCanvasUpdate applied last
  adopted,                \* history: updated_at of the remote documents applied so far
  surfaceBy,              \* history: what changed the scene last
  ev,                     \* history: the step taken last, where a claim is about it
  payload,                \* the document handed to handleCanvasUpdate or restored at startup
  scene,                  \* the argument of the last updateScene call
  store,                  \* the records of the object store 'canvasData', elements and appState in full
  db,                     \* indexedDBService.db is set (init() has succeeded)
  ret                     \* the last call of an indexedDBService method and its outcome

vars == <<now, isTauri, mounted, released, dbOpens, apiRef, isInitialized, initPc, initResp, backendData,
          surface, echoPending, isUpdatingFromRestore, flagTimers,
          saveTimeoutRef, lastSaveDataRef, cache, dbQueue, remoteEls, remoteTs,
          remoteWrites, pollNext, lastUpdateTime, inflight, listening,
          pushQueue, emits, edits, ticks, lastObs, adopted, surfaceBy, ev,
          payload, scene, store, db, ret>>

lifeVars == <<mounted, released, dbOpens>>
surfaceVars == <<surface, echoPending>>
echoVars == <<isUpdatingFromRestore, flagTimers>>
debounceVars == <<saveTimeoutRef, lastSaveDataRef>>
dbVars == <<cache, dbQueue>>
remoteVars == <<remoteEls, remoteTs, remoteWrites>>
pollVars == <<pollNext, lastUpdateTime, inflight>>
pushVars == <<listening, pushQueue, emits>>
initVars == <<isInitialized, initPc, initResp, backendData>>
histVars == <<lastObs, adopted, surfaceBy>>
callVars == <<payload, scene, store, db, ret>>

Init ==
  /\ now = StartTime
  /\ isTauri \in BOOLEAN
  /\ mounted = TRUE
  /\ released = FALSE
  /\ dbOpens \in BOOLEAN
  /\ apiRef = FALSE
  /\ isInitialized = FALSE
  /\ initPc = "idle"
  /\ initResp = [pending |-> FALSE, ok |-> FALSE, els |-> 0, ts |-> 0, sent |-> FALSE]
  /\ backendData = NoBackend
  /\ surface = EmptyDoc
  /\ echoPending = "none"
  /\ isUpdatingFromRestore = FALSE
  /\ flagTimers = {}
  /\ saveTimeoutRef = NoTimer
  /\ lastSaveDataRef = <<>>
  /\ cache \in IF dbOpens
              THEN {NoRecord} \cup {Record(e, TRUE, TimeStep) : e \in ElemLists}
              ELSE {NoRecord}
  /\ dbQueue = <<>>
  /\ remoteEls \in RemoteElems
  /\ remoteTs = TimeStep
  /\ remoteWrites = 0
  /\ pollNext = StartTime + PollPeriod
  /\ lastUpdateTime = 0
  /\ inflight = <<>>
  /\ listening = FALSE
  /\ pushQueue = <<>>
  /\ emits = 0
  /\ edits = 0
  /\ ticks = 0
  /\ lastObs = NoObs
  /\ adopted = {}
  /\ surfaceBy = "none"
  /\ ev = <<"step">>
  /\ payload = [t |-> "none"]
  /\ scene = [t |-> "none"]
  /\ store = {}
  /\ db = FALSE
  /\ ret = <<"none">>


\* ---- helpers -----------------------------------------------------------
RemoveAt(q, i) == [j \in 1..(Len(q) - 1) |-> IF j < i THEN q[j] ELSE q[j + 1]]

\* JSON.stringify({elements, appState: safeAppState, files}) of onChange: one
\* string per content, never the '' that lastSaveDataRef starts with.
DataHash(d) == <<"elements", d.els, "complete", d.norm>>

\* A save that leaves the timestamp out: the variant C10 tells apart.
SaveRecordUnstamped(els, norm) == Record(els, norm, 0)

\* The record saveCanvasData builds: { id: 'current', elements, appState,
\* timestamp: Date.now() }.
SaveRecord(els, norm) == Record(els, norm, now)

\* saveCanvasData(elements, appState): the put request on the object store.
\* owner is the caller that awaits it; src is history, the remote document
\* the caller got the elements from (NoObs when it got them from no one).
saveCanvasData(els, norm, owner, src) ==
  [op |-> "put", rec |-> SaveRecord(els, norm), owner |-> owner, src |-> src]

\* loadCanvasData(): the get request.
loadCanvasData(owner) ==
  [op |-> "get", rec |-> NoRecord, owner |-> owner, src |-> NoObs]

\* A clear that saves an empty record in place of the delete: the variant
\* C11 tells apart.
clearCanvasDataKeepsRecord(owner) ==
  [op |-> "put", rec |-> Record(0, TRUE, now), owner |-> owner, src |-> NoObs]

\* clearCanvasData(): the delete request.
clearCanvasData(owner) ==
  [op |-> "delete", rec |-> NoRecord, owner |-> owner, src |-> NoObs]

\* What a completed request leaves in the store.
StoreAfter(req) ==
  CASE req.op = "put" -> req.rec
    [] req.op = "delete" -> NoRecord
    [] OTHER -> cache

\* ---- onChange ----------------------------------------------------------
\* onChange without the return of lines 469-472: the variant C2 tells apart.
onChangeUnguarded(d) ==
  IF DataHash(d) = lastSaveDataRef
  THEN UNCHANGED debounceVars
  ELSE /\ lastSaveDataRef' = DataHash(d)
       /\ saveTimeoutRef' =
            [set |-> TRUE, due |-> now + DebounceDelay, doc |-> d]

\* The onChange callback with the scene d (elements is never null when
\* Excalidraw calls it).
onChange(d) ==
  IF isUpdatingFromRestore
  THEN UNCHANGED debounceVars
  ELSE IF DataHash(d) = lastSaveDataRef
       THEN UNCHANGED debounceVars
       ELSE /\ lastSaveDataRef' = DataHash(d)
            /\ saveTimeoutRef' =
                 [set |-> TRUE, due |-> now + DebounceDelay, doc |-> d]

\* ---- handleCanvasUpdate ------------------------------------------------
\* The synchronous part of handleCanvasUpdate(payload), up to its await of
\* the IndexedDB request.  p.els is payload.elements, p.ts the updated_at
\* of the remote document (the payload itself does not carry it).
handleCanvasUpdate(p) ==
  IF ~apiRef
  THEN UNCHANGED <<surfaceVars, echoVars, dbQueue>>
  ELSE /\ isUpdatingFromRestore' = TRUE
       /\ flagTimers' = flagTimers \cup {now + EchoDelay}
       /\ echoPending' = "update"
       /\ IF p.els > 0
          THEN /\ surface' = Doc(p.els, TRUE)
               /\ dbQueue' = Append(dbQueue, saveCanvasData(p.els, TRUE, "update", p))
          ELSE /\ surface' = EmptyDoc
               /\ dbQueue' = Append(dbQueue, clearCanvasData("update"))

\* History of the observations handleCanvasUpdate applied.
Observed(p) ==
  IF apiRef
  THEN /\ lastObs' = [els |-> p.els, ts |-> p.ts]
       /\ adopted' = adopted \cup {p.ts}
       /\ surfaceBy' = "update"
  ELSE UNCHANGED histVars

Applied(p) == IF apiRef THEN <<"applied", p>> ELSE <<"step">>

\* ---- the surface -------------------------------------------------------
\* excalidrawAPI callback: apiRef.current = api.
ApiReady ==
  /\ mounted
  /\ ~apiRef
  /\ apiRef' = TRUE
  /\ ev' = <<"step">>
  /\ UNCHANGED <<now, isTauri, callVars, lifeVars, initVars, surfaceVars, echoVars, debounceVars,
                 dbVars, remoteVars, pollVars, pushVars, edits, ticks, histVars>>

\* The user changes the scene to d; Excalidraw calls onChange with it.
UserEdit(d) ==
  /\ mounted
  /\ apiRef
  /\ edits < MaxEdits
  /\ d # surface
  /\ surface' = d
  /\ edits' = edits + 1
  /\ onChange(d)
  /\ surfaceBy' = IF isUpdatingFromRestore THEN "suppressedEdit" ELSE "edit"
  /\ ev' = <<"userEdit", isUpdatingFromRestore>>
  /\ UNCHANGED <<now, isTauri, callVars, lifeVars, apiRef, initVars, echoPending, echoVars, dbVars,
                 remoteVars, pollVars, pushVars, ticks, lastObs, adopted>>

\* Excalidraw calls onChange for the scene an updateScene left.
EchoNotify ==
  /\ mounted
  /\ echoPending # "none"
  /\ echoPending' = "none"
  /\ onChange(surface)
  /\ ev' = <<"echo", isUpdatingFromRestore, echoPending>>
  /\ UNCHANGED <<now, isTauri, callVars, lifeVars, apiRef, initVars, surface, echoVars, dbVars,
                 remoteVars, pollVars, pushVars, edits, ticks, histVars>>

\* ---- timers ------------------------------------------------------------
\* setTimeout(() => { isUpdatingFromRestore.current = false }, 100)
FlagTimerFire ==
  \E t \in flagTimers :
    /\ t <= now
    /\ isUpdatingFromRestore' = FALSE
    /\ flagTimers' = flagTimers \ {t}
    /\ ev' = <<"step">>
    /\ UNCHANGED <<now, isTauri, callVars, lifeVars, apiRef, initVars, surfaceVars, debounceVars,
                   dbVars, remoteVars, pollVars, pushVars, edits, ticks, histVars>>

\* A debounced save that also sends the document to the service with PUT
\* /canvas: the variant C16 tells apart.
DebounceFirePushes ==
  /\ saveTimeoutRef.set
  /\ saveTimeoutRef.due <= now
  /\ dbQueue' = Append(dbQueue,
       [op |-> "put", rec |-> Record(saveTimeoutRef.doc.els, saveTimeoutRef.doc.norm, now),
        owner |-> "debounce", src |-> NoObs])
  /\ saveTimeoutRef' = NoTimer
  /\ remoteEls' = saveTimeoutRef.doc.els
  /\ remoteTs' = now
  /\ ev' = <<"step">>
  /\ UNCHANGED <<now, isTauri, callVars, lifeVars, apiRef, initVars, surfaceVars, echoVars,
                 lastSaveDataRef, cache, remoteWrites, pollVars, pushVars, edits, ticks, histVars>>

\* The debounce timer of onChange fires: saveCanvasData(mutableElements,
\* safeAppState) of its closure.  A fired timer's id stays in
\* saveTimeoutRef.current, where clearTimeout of it does nothing.
DebounceFire ==
  /\ saveTimeoutRef.set
  /\ saveTimeoutRef.due <= now
  /\ dbQueue' = Append(dbQueue,
       saveCanvasData(saveTimeoutRef.doc.els, saveTimeoutRef.doc.norm, "debounce", NoObs))
  /\ saveTimeoutRef' = NoTimer
  /\ ev' = <<"step">>
  /\ UNCHANGED <<now, isTauri, callVars, lifeVars, apiRef, initVars, surfaceVars, echoVars,
                 lastSaveDataRef, cache, remoteVars, pollVars, pushVars, edits, ticks, histVars>>

\* ---- IndexedDB ---------------------------------------------------------
\* History: what the completion of the request req was, and whether there
\* was a record before it.
DbDone(req) ==
  CASE ~dbOpens -> <<"step">>
    [] req.op = "put" /\ req.owner = "update" -> <<"adoptSaved", cache.present, req.src>>
    [] req.op = "put" /\ req.owner = "debounce" -> <<"localSaved", cache.present>>
    [] req.op = "delete" -> <<"cleared", cache.present, cache.els>>
    [] OTHER -> <<"step">>

\* The request at the head of the queue completes; its caller does nothing
\* more than log (handleCanvasUpdate, the debounced save).  When the
\* database does not open, the request's init() rejects and the store is
\* left as it is.
DbComplete ==
  /\ dbQueue # <<>>
  /\ Head(dbQueue).owner # "startup"
  /\ cache' = IF dbOpens THEN StoreAfter(Head(dbQueue)) ELSE cache
  /\ dbQueue' = Tail(dbQueue)
  /\ ev' = DbDone(Head(dbQueue))
  /\ UNCHANGED <<now, isTauri, callVars, lifeVars, apiRef, initVars, surfaceVars, echoVars,
                 debounceVars, remoteVars, pollVars, pushVars, edits, ticks, histVars>>

\* ---- the remote service and its two channels ---------------------------
\* Another client writes the canvas of the remote service, which stamps
\* updated_at with its clock (the service runs on localhost).
RemoteWrite(e) ==
  /\ remoteWrites < MaxRemoteWrites
  /\ now > remoteTs
  /\ e # remoteEls
  /\ remoteEls' = e
  /\ remoteTs' = now
  /\ remoteWrites' = remoteWrites + 1
  /\ ev' = <<"step">>
  /\ UNCHANGED <<now, isTauri, callVars, lifeVars, apiRef, initVars, surfaceVars, echoVars,
                 debounceVars, dbVars, pollVars, pushVars, edits, ticks, histVars>>

\* GET /canvas as the service answers it now.
CanvasResponse == [els |-> remoteEls, ts |-> remoteTs]

\* A poll whose interval is cleared when a read fails: the variant C19
\* tells apart.
PollTickStopsOnFailure ==
  /\ ~isTauri
  /\ pollNext # NoPoll
  /\ pollNext <= now
  /\ \E ok \in BOOLEAN :
       /\ ok => Len(inflight) < MaxInFlight
       /\ pollNext' = IF ok THEN pollNext + PollPeriod ELSE NoPoll
       /\ inflight' = IF ok THEN Append(inflight, [els |-> remoteEls, ts |-> remoteTs])
                            ELSE inflight
       /\ ev' = IF ok THEN <<"step">> ELSE <<"pollFailed">>
  /\ UNCHANGED <<now, isTauri, callVars, lifeVars, apiRef, initVars, surfaceVars, echoVars,
                 debounceVars, dbVars, remoteVars, lastUpdateTime, pushVars, edits, ticks, histVars>>

\* A tick of setInterval(..., 1000): fetch('http://localhost:31337/canvas').
\* The request fails (the catch logs a warning) or its response is in flight.
PollTick ==
  /\ ~isTauri
  /\ pollNext # NoPoll
  /\ pollNext <= now
  /\ pollNext' = pollNext + PollPeriod
  /\ \E ok \in BOOLEAN :
       /\ ok => Len(inflight) < MaxInFlight
       /\ inflight' = IF ok THEN Append(inflight, CanvasResponse) ELSE inflight
       /\ ev' = IF ok THEN <<"step">> ELSE <<"pollFailed">>
  /\ UNCHANGED <<now, isTauri, callVars, lifeVars, apiRef, initVars, surfaceVars, echoVars,
                 debounceVars, dbVars, remoteVars, lastUpdateTime, pushVars, edits, ticks, histVars>>

\* canvas && canvas.updated_at && canvas.updated_at !== lastUpdateTime
PollIsUpdate(r) == r.ts # 0 /\ r.ts # lastUpdateTime

\* The response of an outstanding poll request arrives.
PollResponse(i) ==
  /\ i \in DOMAIN inflight
  /\ inflight' = RemoveAt(inflight, i)
  /\ IF PollIsUpdate(inflight[i])
     THEN /\ lastUpdateTime' = inflight[i].ts
          /\ handleCanvasUpdate(inflight[i])
          /\ Observed(inflight[i])
          /\ ev' = Applied(inflight[i])
     ELSE /\ UNCHANGED <<lastUpdateTime, surfaceVars, echoVars, dbQueue, histVars>>
          /\ ev' = <<"step">>
  /\ UNCHANGED <<now, isTauri, callVars, lifeVars, apiRef, initVars, debounceVars, cache,
                 remoteVars, pollNext, pushVars, edits, ticks>>

\* handleCanvasUpdate(payload) when updateScene throws at every call: the
\* flag is set (line 218, and again at line 250 in the catch of line 245,
\* or line 278), the setTimeout that clears it and the IndexedDB call come
\* after the updateScene that threw and are skipped (catch of line 271 or
\* of line 301).
handleCanvasUpdateThrows(p) ==
  IF ~apiRef
  THEN UNCHANGED <<surfaceVars, echoVars, dbQueue>>
  ELSE /\ isUpdatingFromRestore' = TRUE
       /\ UNCHANGED <<flagTimers, surfaceVars, dbQueue>>

\* The response of an outstanding poll request arrives and updateScene
\* throws in handleCanvasUpdate.
PollResponseThrows(i) ==
  /\ i \in DOMAIN inflight
  /\ PollIsUpdate(inflight[i])
  /\ apiRef
  /\ inflight' = RemoveAt(inflight, i)
  /\ lastUpdateTime' = inflight[i].ts
  /\ handleCanvasUpdateThrows(inflight[i])
  /\ ev' = <<"applyThrew", inflight[i]>>
  /\ UNCHANGED <<now, isTauri, callVars, lifeVars, apiRef, initVars, debounceVars, cache,
                 remoteVars, pollNext, pushVars, edits, ticks, histVars>>

\* listen("excalidraw_draw", ...) resolves: the handler is registered.
ListenRegistered ==
  /\ isTauri
  /\ ~listening
  /\ ~released
  /\ listening' = TRUE
  /\ ev' = <<"step">>
  /\ UNCHANGED <<now, isTauri, callVars, lifeVars, apiRef, initVars, surfaceVars, echoVars,
                 debounceVars, dbVars, remoteVars, pollVars, pushQueue, emits, edits, ticks, histVars>>

\* The host emits excalidraw_draw with the canvas of the service as payload.
RemoteEmit ==
  /\ listening
  /\ emits < MaxEmits
  /\ emits' = emits + 1
  /\ pushQueue' = Append(pushQueue, CanvasResponse)
  /\ ev' = <<"step">>
  /\ UNCHANGED <<now, isTauri, callVars, lifeVars, apiRef, initVars, surfaceVars, echoVars,
                 debounceVars, dbVars, remoteVars, pollVars, listening, edits, ticks, histVars>>

\* The listener of excalidraw_draw runs for the oldest undelivered event.
PushDeliver ==
  /\ listening
  /\ pushQueue # <<>>
  /\ pushQueue' = Tail(pushQueue)
  /\ handleCanvasUpdate(Head(pushQueue))
  /\ Observed(Head(pushQueue))
  /\ ev' = Applied(Head(pushQueue))
  /\ UNCHANGED <<now, isTauri, callVars, lifeVars, apiRef, initVars, debounceVars, cache,
                 remoteVars, pollVars, listening, emits, edits, ticks>>

\* ---- initializeStorage --------------------------------------------------
\* The effect of lines 119-122: apiRef.current && !isInitialized.  It calls
\* initializeStorage, which awaits indexedDBService.init().
StartInit ==
  /\ mounted
  /\ apiRef
  /\ ~isInitialized
  /\ isInitialized' = TRUE
  /\ initPc' = "init"
  /\ ev' = <<"step">>
  /\ UNCHANGED <<now, isTauri, callVars, lifeVars, apiRef, initResp, backendData, surfaceVars,
                 echoVars, debounceVars, dbVars, remoteVars, pollVars, pushVars, edits, ticks, histVars>>

\* init() resolves; repairData() starts with loadCanvasData().
InitOpened ==
  /\ dbOpens
  /\ initPc = "init"
  /\ initPc' = "repairLoad"
  /\ dbQueue' = Append(dbQueue, loadCanvasData("startup"))
  /\ ev' = <<"step">>
  /\ UNCHANGED <<now, isTauri, callVars, lifeVars, apiRef, isInitialized, initResp, backendData,
                 surfaceVars, echoVars, debounceVars, cache, remoteVars,
                 pollVars, pushVars, edits, ticks, histVars>>

\* init() rejects: the catch of lines 107-116 calls repairData(), whose
\* loadCanvasData and clearCanvasData call init() again, which rejects
\* again; repairData returns false and initializeStorage ends.
InitFailed ==
  /\ ~dbOpens
  /\ initPc = "init"
  /\ initPc' = "done"
  /\ ev' = <<"step">>
  /\ UNCHANGED <<now, isTauri, callVars, lifeVars, apiRef, isInitialized, initResp, backendData,
                 surfaceVars, echoVars, debounceVars, dbVars, remoteVars,
                 pollVars, pushVars, edits, ticks, histVars>>

\* fetch('http://localhost:31337/canvas') of the startup: it fails, or the
\* service answers with its canvas as it is now.
StartupFetch ==
  \E ok \in BOOLEAN :
    initResp' = [pending |-> TRUE, ok |-> ok,
                 els |-> IF ok THEN remoteEls ELSE 0,
                 ts |-> IF ok THEN remoteTs ELSE 0,
                 sent |-> TRUE]

\* The startup request at the head of the queue.
StartupHead(pc, op) ==
  /\ initPc = pc
  /\ dbQueue # <<>>
  /\ Head(dbQueue).owner = "startup"
  /\ Head(dbQueue).op = op

\* repairData(): the load completes.  No record: nothing to repair.  A
\* record: it is saved again (saveCanvasData(data.elements, data.appState)).
RepairLoaded ==
  /\ StartupHead("repairLoad", "get")
  /\ IF cache.present
     THEN /\ dbQueue' = Append(Tail(dbQueue),
                               saveCanvasData(cache.els, cache.norm, "startup", NoObs))
          /\ initPc' = "repairSave"
          /\ UNCHANGED initResp
     ELSE /\ dbQueue' = Tail(dbQueue)
          /\ initPc' = "fetch"
          /\ StartupFetch
  /\ ev' = <<"step">>
  /\ UNCHANGED <<now, isTauri, callVars, lifeVars, apiRef, isInitialized, backendData, surfaceVars,
                 echoVars, debounceVars, cache, remoteVars, pollVars, pushVars, edits, ticks, histVars>>

\* repairData(): the save completes; the startup fetch is issued.
RepairSaved ==
  /\ StartupHead("repairSave", "put")
  /\ cache' = StoreAfter(Head(dbQueue))
  /\ dbQueue' = Tail(dbQueue)
  /\ initPc' = "fetch"
  /\ StartupFetch
  /\ ev' = <<"step">>
  /\ UNCHANGED <<now, isTauri, callVars, lifeVars, apiRef, isInitialized, backendData, surfaceVars,
                 echoVars, debounceVars, remoteVars, pollVars, pushVars, edits, ticks, histVars>>

\* The startup response arrives.  data.canvas && data.canvas.elements: the
\* canvas becomes backendData and is saved; otherwise the cache is loaded.
StartupResponse ==
  /\ initPc = "fetch"
  /\ initResp.pending
  /\ initResp' = [initResp EXCEPT !.pending = FALSE]
  /\ IF initResp.ok /\ initResp.els # NotArray
     THEN /\ backendData' = [has |-> TRUE, els |-> initResp.els, ts |-> initResp.ts]
          /\ dbQueue' = Append(dbQueue,
               saveCanvasData(initResp.els, FALSE, "startup",
                              [els |-> initResp.els, ts |-> initResp.ts]))
          /\ initPc' = "save"
     ELSE /\ backendData' = NoBackend
          /\ dbQueue' = Append(dbQueue, loadCanvasData("startup"))
          /\ initPc' = "load"
  /\ ev' = <<"step">>
  /\ UNCHANGED <<now, isTauri, callVars, lifeVars, apiRef, isInitialized, surfaceVars, echoVars,
                 debounceVars, cache, remoteVars, pollVars, pushVars, edits, ticks, histVars>>

\* A restore that leaves the scene alone: the variant C12 tells apart.
RestoreSceneSkipped(els, norm) == UNCHANGED surfaceVars

\* apiRef.current.updateScene({elements: dataToRestore.elements, ...}) of
\* lines 93-103: the elements as they are, isUpdatingFromRestore untouched.
RestoreScene(els, norm) ==
  IF apiRef
  THEN /\ surface' = Doc(els, norm)
       /\ echoPending' = "restore"
  ELSE UNCHANGED surfaceVars

\* The save of the backend data completes; backendData is restored.
StartupSaved ==
  /\ StartupHead("save", "put")
  /\ cache' = StoreAfter(Head(dbQueue))
  /\ dbQueue' = Tail(dbQueue)
  /\ initPc' = "done"
  /\ RestoreScene(backendData.els, FALSE)
  /\ adopted' = IF apiRef THEN adopted \cup {backendData.ts} ELSE adopted
  /\ surfaceBy' = IF apiRef THEN "restore" ELSE surfaceBy
  /\ ev' = <<"startupAdopt", cache.present, cache.els>>
  /\ UNCHANGED <<now, isTauri, callVars, lifeVars, apiRef, isInitialized, initResp, backendData,
                 echoVars, debounceVars, remoteVars, pollVars, pushVars, edits,
                 ticks, lastObs>>

\* A fallback that loads the record and restores nothing: the variant C13
\* tells apart.
StartupLoadedIgnoresRecord ==
  /\ initPc = "load"
  /\ dbQueue # <<>>
  /\ Head(dbQueue).owner = "startup"
  /\ Head(dbQueue).op = "get"
  /\ dbQueue' = Tail(dbQueue)
  /\ initPc' = "done"
  /\ ev' = <<"startupLocal", cache.present>>
  /\ UNCHANGED <<now, isTauri, callVars, lifeVars, apiRef, isInitialized, initResp, backendData,
                 surfaceVars, echoVars, debounceVars, cache, remoteVars, pollVars,
                 pushVars, edits, ticks, histVars>>

\* No backend data: the load completes; savedData && savedData.elements is
\* restored when there is a record.
StartupLoaded ==
  /\ StartupHead("load", "get")
  /\ dbQueue' = Tail(dbQueue)
  /\ initPc' = "done"
  /\ IF cache.present
     THEN /\ RestoreScene(cache.els, cache.norm)
          /\ ev' = <<"startupLocal", TRUE>>
     ELSE /\ UNCHANGED surfaceVars
          /\ ev' = <<"startupLocal", FALSE>>
  /\ surfaceBy' = IF cache.present /\ apiRef THEN "restore" ELSE surfaceBy
  /\ UNCHANGED <<now, isTauri, callVars, lifeVars, apiRef, isInitialized, initResp, backendData,
                 echoVars, debounceVars, cache, remoteVars, pollVars, pushVars, edits, ticks,
                 lastObs, adopted>>

\* ---- the clock ---------------------------------------------------------
Deadlines ==
  flagTimers
    \cup (IF saveTimeoutRef.set THEN {saveTimeoutRef.due} ELSE {})
    \cup (IF isTauri \/ pollNext = NoPoll THEN {} ELSE {pollNext})

\* Time passes: by one step, or up to the next deadline.  It passes no
\* deadline, and it waits for IndexedDB, for the surface's notification, for
\* the delivery of emitted events and for the mount (the surface's API, the
\* startup effect, the listener).
Tick ==
  /\ dbQueue = <<>>
  /\ initPc # "init"
  /\ mounted => /\ echoPending = "none"
                /\ isInitialized
                /\ isTauri => listening
  /\ pushQueue = <<>>
  /\ ticks < MaxTicks
  /\ ticks' = ticks + 1
  /\ \E t \in {now + TimeStep} \cup Deadlines :
       /\ t > now
       /\ \A d \in Deadlines : t <= d
       /\ now' = t
  /\ ev' = <<"step">>
  /\ UNCHANGED <<isTauri, callVars, lifeVars, apiRef, initVars, surfaceVars, echoVars, debounceVars,
                 dbVars, remoteVars, pollVars, pushVars, edits, histVars>>

\* An unmount whose cleanups clear neither the debounce timer nor the poll
\* interval: the variant C18 tells apart.
TeardownLeavesTimers ==
  /\ mounted
  /\ mounted' = FALSE
  /\ released' = listening
  /\ listening' = FALSE
  /\ pushQueue' = <<>>
  /\ ev' = <<"teardown", saveTimeoutRef.set, listening>>
  /\ UNCHANGED <<now, isTauri, callVars, dbOpens, apiRef, initVars, surfaceVars, echoVars,
                 debounceVars, dbVars, remoteVars, pollVars,
                 emits, edits, ticks, histVars>>

\* The component unmounts; the cleanups of its effects run: clearTimeout of
\* the debounce timer (lines 126-132), clearInterval of the poll (lines
\* 345-347), unlisten() when listen() has resolved (lines 363-368).  The
\* 100 ms timers and the requests under way are not cancelled.
Teardown ==
  /\ mounted
  /\ mounted' = FALSE
  /\ saveTimeoutRef' = NoTimer
  /\ pollNext' = NoPoll
  /\ released' = listening
  /\ listening' = FALSE
  /\ pushQueue' = <<>>
  /\ ev' = <<"teardown", saveTimeoutRef.set, listening>>
  /\ UNCHANGED <<now, isTauri, callVars, dbOpens, apiRef, initVars, surfaceVars, echoVars,
                 lastSaveDataRef, dbVars, remoteVars, lastUpdateTime, inflight,
                 emits, edits, ticks, histVars>>

\* What the component does in either mode, and what is done to it.
Common ==
  \/ ApiReady
  \/ \E e \in ElemLists : UserEdit(Doc(e, TRUE))
  \/ EchoNotify
  \/ FlagTimerFire
  \/ DebounceFire
  \/ DbComplete
  \/ \E e \in RemoteElems : RemoteWrite(e)
  \/ StartInit
  \/ InitOpened
  \/ InitFailed
  \/ RepairLoaded
  \/ RepairSaved
  \/ StartupResponse
  \/ StartupSaved
  \/ StartupLoaded
  \/ Tick
  \/ Teardown

\* Poll mode: !isTauri, the setInterval of lines 317-343.
NextPoll ==
  \/ Common
  \/ PollTick
  \/ \E i \in 1..MaxInFlight : PollResponse(i)

\* Push mode: isTauri, the listener of lines 350-362.
NextPush ==
  \/ Common
  \/ ListenRegistered
  \/ RemoteEmit
  \/ PushDeliver

\* isTauri is fixed when the module is loaded (line 9).
InitPoll == Init /\ isTauri = FALSE
InitPush == Init /\ isTauri = TRUE

SpecPoll == InitPoll /\ [][NextPoll]_vars
SpecPush == InitPush /\ [][NextPush]_vars

\* Poll mode with an updateScene that may throw.
NextPollThrows ==
  \/ NextPoll
  \/ \E i \in 1..MaxInFlight : PollResponseThrows(i)

SpecPollThrows == InitPoll /\ [][NextPollThrows]_vars


\* ---- JavaScript values -------------------------------------------------
\* For the contents of elements, appState and records the values are kept
\* with their JavaScript type t and their text v: a number by its digits,
\* a string by its characters, an array by its JSON text.
Undefined == [t |-> "undefined", v |-> ""]
Null == [t |-> "null", v |-> ""]
NaN == [t |-> "nan", v |-> ""]
Bool(b) == [t |-> "boolean", v |-> IF b THEN "true" ELSE "false"]
Num(n) == [t |-> "number", v |-> ToString(n)]
Str(s) == [t |-> "string", v |-> s]
Arr(json) == [t |-> "array", v |-> json]
PlainObject == [t |-> "object", v |-> "{}"]

\* ToBoolean: what || and Boolean() take for false.
Truthy(x) ==
  CASE x.t \in {"undefined", "null", "nan"} -> FALSE
    [] x.t = "boolean" -> x.v = "true"
    [] x.t = "number" -> x.v # "0"
    [] x.t = "string" -> x.v # ""
    [] OTHER -> TRUE

\* a || b
Or(a, b) == IF Truthy(a) THEN a ELSE b

\* The strings Number() reads as a number, among those of the model.
NumericStrings == {"0", "1", "2", "50"}

\* Number(x)
ToNumber(x) ==
  CASE x.t = "number" -> x
    [] x.t = "null" -> Num(0)
    [] x.t = "boolean" -> IF x.v = "true" THEN Num(1) ELSE Num(0)
    [] x.t = "string" -> IF x.v = "" THEN Num(0)
                         ELSE IF x.v \in NumericStrings THEN [t |-> "number", v |-> x.v]
                         ELSE NaN
    [] x.t = "array" -> IF x.v = "[]" THEN Num(0) ELSE NaN
    [] OTHER -> NaN

\* Array.isArray(x)
IsArray(x) == x.t = "array"

\* An object is a function from the names of its own properties to their
\* values; obj.name of a property it has not is undefined.
Get(obj, name) == IF name \in DOMAIN obj THEN obj[name] ELSE Undefined

\* The arrays of points of the model and their lengths.
ArrayLength(x) ==
  CASE x.v = "[]" -> 0
    [] x.v = "[[0,0]]" -> 1
    [] x.v = "[[0,0],[100,100]]" -> 2
    [] x.v = "[[5,5],[7,9]]" -> 2
    [] OTHER -> 1

\* ---- the normalization of handleCanvasUpdate ---------------------------
\* The properties baseElement sets whatever the element's type (lines
\* 157-176).
BaseFields == {"id", "seed", "versionNonce", "groupIds", "boundElements", "updated",
               "link", "locked", "frameId", "strokeColor", "backgroundColor",
               "isDeleted", "opacity", "roughness", "strokeWidth", "angle", "version"}

\* `element_${Date.now()}_${index}`
GeneratedId(time, index) == Str("element_" \o ToString(time) \o "_" \o ToString(index))

\* A variant of baseElement that fills nothing in: the variant C23 tells
\* apart.
BaseValueAsGiven(c, f, index, time, random) == Get(c, f)

\* The value baseElement gives the property f of the index-th element c;
\* random is the result of Math.floor(Math.random() * 1000000).
BaseValue(c, f, index, time, random) ==
  CASE f = "id" -> Or(Get(c, "id"), GeneratedId(time, index))
    [] f = "seed" -> Or(Get(c, "seed"), Num(random))
    [] f = "versionNonce" -> Or(Get(c, "versionNonce"), Num(random))
    [] f = "groupIds" -> IF IsArray(Get(c, "groupIds")) THEN c.groupIds ELSE Arr("[]")
    [] f = "boundElements" -> Or(Get(c, "boundElements"), Null)
    [] f = "updated" -> Or(Get(c, "updated"), Num(time))
    [] f = "link" -> Or(Get(c, "link"), Null)
    [] f = "locked" -> Bool(Truthy(Get(c, "locked")))
    [] f = "frameId" -> Or(Get(c, "frameId"), Null)
    [] f = "strokeColor" -> Or(Get(c, "strokeColor"), Str("#000000"))
    [] f = "backgroundColor" -> Or(Get(c, "backgroundColor"), Str("transparent"))
    [] f = "isDeleted" -> Bool(Truthy(Get(c, "isDeleted")))
    [] f = "opacity" -> Or(ToNumber(Get(c, "opacity")), Num(100))
    [] f = "roughness" -> Or(ToNumber(Get(c, "roughness")), Num(1))
    [] f = "strokeWidth" -> Or(ToNumber(Get(c, "strokeWidth")), Num(1))
    [] f = "angle" -> Or(ToNumber(Get(c, "angle")), Num(0))
    [] f = "version" -> Or(ToNumber(Get(c, "version")), Num(1))
    [] OTHER -> c[f]

\* baseElement = { ...cleanElement, id: ..., ..., version: ... }
baseElement(c, index, time, random) ==
  [f \in DOMAIN c \cup BaseFields |-> BaseValue(c, f, index, time, random)]

\* The properties set on a text element (lines 179-188).
TextFields == {"text", "fontSize", "fontFamily", "textAlign", "verticalAlign",
               "containerId", "originalText", "lineHeight"}

TextValue(c, f) ==
  CASE f = "text" -> Or(Get(c, "text"), Str(""))
    [] f = "fontSize" -> Or(ToNumber(Get(c, "fontSize")), Num(20))
    [] f = "fontFamily" -> Or(ToNumber(Get(c, "fontFamily")), Num(1))
    [] f = "textAlign" -> Or(Get(c, "textAlign"), Str("left"))
    [] f = "verticalAlign" -> Or(Get(c, "verticalAlign"), Str("top"))
    [] f = "containerId" -> Or(Get(c, "containerId"), Null)
    [] f = "originalText" -> Or(Get(c, "originalText"), Or(Get(c, "text"), Str("")))
    [] OTHER -> Or(ToNumber(Get(c, "lineHeight")), [t |-> "number", v |-> "1.25"])

\* The properties set on an arrow or a line (lines 191-198).
LinearFields == {"points", "lastCommittedPoint", "startBinding", "endBinding",
                 "startArrowhead", "endArrowhead"}

\* A variant of the arrow and line block that fills nothing in: the variant
\* C24 tells apart.
LinearValueAsGiven(c, f) == Get(c, f)

\* A variant of the arrow and line block that defaults points as the
\* freedraw block does: the variant C26 tells apart.
LinearValueEmptyPoints(c, f) ==
  IF f = "points"
  THEN IF IsArray(Get(c, "points")) THEN c.points ELSE Arr("[]")
  ELSE Or(Get(c, f), Null)

LinearValue(c, f) ==
  CASE f = "points" -> IF IsArray(Get(c, "points")) THEN c.points
                       ELSE Arr("[[0,0],[100,100]]")
    [] f = "lastCommittedPoint" -> Or(Get(c, "lastCommittedPoint"), Null)
    [] f = "startBinding" -> Or(Get(c, "startBinding"), Null)
    [] f = "endBinding" -> Or(Get(c, "endBinding"), Null)
    [] f = "startArrowhead" -> Or(Get(c, "startArrowhead"), Null)
    [] OTHER -> Or(Get(c, "endArrowhead"), Str("arrow"))

\* The properties set on a freedraw element (lines 201-207).
FreedrawFields == {"points", "pressures", "simulatePressure", "lastCommittedPoint"}

FreedrawValue(c, f) ==
  CASE f = "points" -> IF IsArray(Get(c, "points")) THEN c.points ELSE Arr("[]")
    [] f = "pressures" -> IF IsArray(Get(c, "pressures")) THEN c.pressures ELSE Arr("[]")
    [] f = "simulatePressure" -> Bool(Truthy(Get(c, "simulatePressure")))
    [] OTHER -> Or(Get(c, "lastCommittedPoint"), Null)

\* The properties the three type blocks add to an element of type ty.
TypeFields(ty) ==
  CASE ty = Str("text") -> TextFields
    [] ty \in {Str("arrow"), Str("line")} -> LinearFields
    [] ty = Str("freedraw") -> FreedrawFields
    [] OTHER -> {}

TypeValue(c, f) ==
  CASE Get(c, "type") = Str("text") -> TextValue(c, f)
    [] Get(c, "type") \in {Str("arrow"), Str("line")} -> LinearValue(c, f)
    [] OTHER -> FreedrawValue(c, f)

\* One turn of the forEach of lines 152-211: the element pushed to
\* processedElements for the index-th element of the payload.
ProcessElement(c, index, time, random) ==
  LET base == baseElement(c, index, time, random)
      own == TypeFields(Get(c, "type"))
  IN [f \in DOMAIN base \cup own |-> IF f \in own THEN TypeValue(c, f) ELSE base[f]]

\* processedElements; forEach counts the elements from 0.
processedElements(elements, time, random) ==
  [i \in 1..Len(elements) |-> ProcessElement(elements[i], i - 1, time, random)]

\* ---- appState ----------------------------------------------------------
\* An appState is kept by its JavaScript type and, of its properties, the
\* theme and the shape of collaborators ("absent" when it has none).
AppState(type, text, theme, collaborators) ==
  [t |-> type, v |-> text, theme |-> theme, collaborators |-> collaborators]

\* {}
EmptyAppState == AppState("object", "{}", "absent", "absent")

\* A variant of ensureCollaboratorsMap that hands the appState on as it
\* came: the variant C21 tells apart.
ensureCollaboratorsMapPassesThrough(appState) == appState

\* ensureCollaboratorsMap (lines 26-39).
ensureCollaboratorsMap(appState) ==
  IF ~Truthy(appState) THEN AppState("object", "{}", "absent", "map")
  ELSE IF appState.collaborators = "map" THEN appState
  ELSE AppState("object", "{}", appState.theme, "map")

\* ---- payloads ----------------------------------------------------------
\* bounds of the payloads
MaxElements == 2        \* elements of a payload

ElementTypes == {"rectangle", "ellipse", "diamond", "arrow", "line", "freedraw",
                 "text", "image"}

NoFields == [f \in {} |-> Undefined]

\* { ...a, ...b }, for objects with no property in common
Merge(a, b) == [f \in DOMAIN a \cup DOMAIN b |-> IF f \in DOMAIN a THEN a[f] ELSE b[f]]

\* What a caller of update_canvas has to give (MCP_DRAWING_GUIDE.md lines
\* 21-25), the id left out when it is Undefined.
Geometry(ty) ==
  [type |-> Str(ty), x |-> Num(10), y |-> Num(20), width |-> Num(30), height |-> Num(40)]

IdField(id) == IF id = Undefined THEN NoFields ELSE [id |-> id]
PointsField(points) == IF points = Undefined THEN NoFields ELSE [points |-> points]

\* The ids of the model: none, two plain ones, and the string the
\* normalization builds for the second element at time StartTime.
IdChoices == {Undefined, Str("a"), Str("b"), GeneratedId(StartTime, 1)}

\* The points of the model: none, arrays of 0, 1 and 2 points, a string.
PointsChoices == {Undefined, Arr("[]"), Arr("[[0,0]]"), Arr("[[5,5],[7,9]]"),
                  Str("0,0 10,10")}

\* The rest of an element: nothing, every property given, or properties
\* given with values that are not of the documented type.
StyleChoices ==
  { NoFields,
    [angle |-> Num(1), strokeColor |-> Str("#FF0000"), backgroundColor |-> Str("#00FF00"),
     fillStyle |-> Str("solid"), strokeWidth |-> Num(2), strokeStyle |-> Str("dashed"),
     roughness |-> Num(2), opacity |-> Num(50), groupIds |-> Arr("[g1]"),
     frameId |-> Str("f1"), index |-> Str("a0"), roundness |-> Null, seed |-> Num(7),
     version |-> Num(3), versionNonce |-> Num(9), isDeleted |-> Bool(FALSE),
     boundElements |-> Arr("[]"), updated |-> Num(1), link |-> Str("http://x"),
     locked |-> Bool(TRUE)],
    [opacity |-> Num(0), roughness |-> Str("2"), strokeWidth |-> Str("wide"),
     groupIds |-> Str("g1"), locked |-> Str("yes"), version |-> Null,
     seed |-> Num(0), endArrowhead |-> Null] }

Element(ty, id, points, style) ==
  Merge(Merge(Geometry(ty), IdField(id)), Merge(PointsField(points), style))

ElementInputs ==
  {Element(ty, id, points, style) :
     ty \in ElementTypes, id \in IdChoices, points \in PointsChoices, style \in StyleChoices}

\* The elements a second place of the array takes, to keep the model small.
SecondInputs ==
  {Element(ty, id, Undefined, NoFields) : ty \in {"rectangle", "freedraw"}, id \in IdChoices}

\* payload.elements: an array, or something else.
ArrayOf(items) == [t |-> "array", v |-> "", items |-> items]
NotAnArray(x) == [t |-> x.t, v |-> x.v, items |-> <<>>]

ElementArrays ==
  {ArrayOf(<<>>)} \cup {ArrayOf(<<e>>) : e \in ElementInputs}
  \cup (IF MaxElements >= 2
        THEN {ArrayOf(<<e, s>>) : e \in ElementInputs, s \in SecondInputs}
        ELSE {})

ElementsInputs == ElementArrays \cup {NotAnArray(Undefined), NotAnArray(Str("none"))}

\* payload.appState: absent, null, an object with collaborators absent, an
\* array, a plain object or a Map, or not an object at all.
AppStateInputs ==
  {AppState("undefined", "", "absent", "absent"), AppState("null", "", "absent", "absent"),
   AppState("string", "dark", "absent", "absent"), AppState("number", "0", "absent", "absent"),
   AppState("array", "[]", "absent", "absent")}
  \cup {AppState("object", "{}", th, c) :
          th \in {"absent", "dark"}, c \in {"absent", "array", "object", "null", "map"}}

DrawPayload(elements, appState) == [elements |-> elements, appState |-> appState]
Payloads == {DrawPayload(e, a) : e \in ElementsInputs, a \in AppStateInputs}
NoPayload == DrawPayload(NotAnArray(Undefined), AppState("undefined", "", "absent", "absent"))

\* updateScene({ elements, appState, files }) and the place of the call.
Scene(site, elements, appState) == [site |-> site, elements |-> elements, appState |-> appState]
NoScene == Scene("none", ArrayOf(<<>>), EmptyAppState)

\* The results of Math.floor(Math.random() * 1000000) of the model.
Randoms == {0, 424242}

\* ---- the documents handed to updateScene -------------------------------
componentVars == <<isTauri, lifeVars, apiRef, initVars, surfaceVars, echoVars, debounceVars,
                   dbVars, remoteVars, pollVars, pushVars, edits, ticks, histVars, ev>>

\* The synchronisation at rest, for the runs that are about one call.
ComponentIdle ==
  /\ isTauri = FALSE
  /\ mounted = TRUE
  /\ released = FALSE
  /\ dbOpens = TRUE
  /\ apiRef = TRUE
  /\ isInitialized = TRUE
  /\ initPc = "done"
  /\ initResp = [pending |-> FALSE, ok |-> FALSE, els |-> 0, ts |-> 0, sent |-> FALSE]
  /\ backendData = NoBackend
  /\ surface = EmptyDoc
  /\ echoPending = "none"
  /\ isUpdatingFromRestore = FALSE
  /\ flagTimers = {}
  /\ saveTimeoutRef = NoTimer
  /\ lastSaveDataRef = <<>>
  /\ cache = NoRecord
  /\ dbQueue = <<>>
  /\ remoteEls = 0
  /\ remoteTs = TimeStep
  /\ remoteWrites = 0
  /\ pollNext = NoPoll
  /\ lastUpdateTime = 0
  /\ inflight = <<>>
  /\ listening = FALSE
  /\ pushQueue = <<>>
  /\ emits = 0
  /\ edits = 0
  /\ ticks = 0
  /\ lastObs = NoObs
  /\ adopted = {}
  /\ surfaceBy = "none"
  /\ ev = <<"step">>

\* handleCanvasUpdate(payload) with apiRef set (lines 139-300), for what it
\* hands to updateScene: the processed elements when there are some (lines
\* 216-227; 252-256 when the first updateScene threw), else the empty array
\* (lines 280-285).
HandlePayload(threw, random) ==
  /\ scene = NoScene
  /\ LET elements == IF IsArray(payload.elements) THEN payload.elements.items ELSE <<>>
         safeAppState == ensureCollaboratorsMap(payload.appState)
     IN IF Len(elements) > 0
        THEN scene' = Scene(IF threw THEN "fallback" ELSE "update",
                            ArrayOf(processedElements(elements, now, random)), safeAppState)
        ELSE /\ ~threw
             /\ scene' = Scene("clear", ArrayOf(<<>>), safeAppState)
  /\ UNCHANGED <<now, componentVars, payload, store, db, ret>>

\* The restore of initializeStorage (lines 93-103): dataToRestore is the
\* remote canvas or the saved record, either with elements that are truthy
\* (lines 70, 87); its elements go to updateScene as they are.
RestorePayload ==
  /\ scene = NoScene
  /\ Truthy(payload.elements)
  /\ scene' = Scene("restore", payload.elements, ensureCollaboratorsMap(payload.appState))
  /\ UNCHANGED <<now, componentVars, payload, store, db, ret>>

InitScene ==
  /\ now = StartTime
  /\ ComponentIdle
  /\ payload \in Payloads
  /\ scene = NoScene
  /\ store = {}
  /\ db = FALSE
  /\ ret = <<"none">>

NextScene ==
  \/ \E threw \in BOOLEAN, random \in Randoms : HandlePayload(threw, random)
  \/ RestorePayload

SpecScene == InitScene /\ [][NextScene]_vars


\* ---- indexedDBService, call by call ------------------------------------
\* Here the object store is kept in full: a set of records, each with the
\* key 'id', and the elements and appState as they were handed to
\* saveCanvasData.  A call runs from its first line to its last; each
\* IndexedDB request of it (open, get, put, delete) succeeds or fails.

\* bounds of the calls
MaxClock == 2           \* milliseconds the clock advances between calls

\* The elements saveCanvasData is called with: the arrays of handleCanvasUpdate,
\* onChange and repairData, and whatever truthy data.canvas.elements the
\* startup read brought (ExcalidrawCanvas.tsx lines 70-75).
StoredElements == {Arr("[]"), Arr("[e1]"), Str("none"), Num(5), PlainObject}

\* The appState saveCanvasData is called with: payload.appState || {} (lines
\* 75, 237), the safeAppState of onChange, the appState of repairData.
StoredAppStates ==
  {EmptyAppState, AppState("object", "{}", "dark", "map"),
   AppState("array", "[]", "absent", "absent"), AppState("string", "dark", "absent", "absent"),
   AppState("number", "5", "absent", "absent")}

\* canvasData of saveCanvasData (lines 93-98)
CanvasData(elements, appState, timestamp) ==
  [id |-> "current", elements |-> elements, appState |-> appState, timestamp |-> timestamp]

\* A put that keeps the records already there: the variant C27 tells apart.
PutAppends(records, record) == records \cup {record}

\* store.put(record): the record takes the place of the one with its key.
Put(records, record) == {r \in records : r.id # record.id} \cup {record}

\* store.delete(key)
Delete(records, key) == {r \in records : r.id # key}

\* store.get(key): the records under the key, none or one.
GetAll(records, key) == {r \in records : r.id = key}

\* if (!this.db) await this.init(): the method gets to its transaction if
\* the database is open already or the open request succeeds.
Opens(failOpen) == db \/ ~failOpen

\* typeof x
TypeOf(x) ==
  CASE x.t \in {"object", "array", "null", "map"} -> "object"
    [] x.t \in {"number", "nan"} -> "number"
    [] OTHER -> x.t

\* getLastUpdateTime (lines 168-171): the timestamp, null (0 here) if
\* there is no record.
getLastUpdateTime(records) ==
  IF GetAll(records, "current") = {} THEN 0
  ELSE (CHOOSE r \in GetAll(records, "current") : TRUE).timestamp

\* A comparison that takes equal timestamps for newer: the variant C28
\* tells apart.
shouldUpdateDataOnTies(newTimestamp, loaded) ==
  IF ~loaded THEN TRUE
  ELSE IF getLastUpdateTime(store) = 0 THEN TRUE
  ELSE newTimestamp >= getLastUpdateTime(store)

\* shouldUpdateData (lines 174-187); loaded: loadCanvasData did not reject.
shouldUpdateData(newTimestamp, loaded) ==
  IF ~loaded THEN TRUE
  ELSE IF getLastUpdateTime(store) = 0 THEN TRUE
  ELSE newTimestamp > getLastUpdateTime(store)

\* The validation of repairData (lines 220-233).
RepairedElements(data) == IF ~IsArray(data.elements) THEN Arr("[]") ELSE data.elements
RepairedAppState(data) ==
  IF ~Truthy(data.appState) \/ TypeOf(data.appState) # "object"
  THEN EmptyAppState
  ELSE data.appState

\* A catch that lets the failure of clearCanvasData out: the variant C29
\* tells apart.
RepairCatchRethrows(records, opens, failDelete) ==
  IF opens /\ ~failDelete
  THEN [store |-> Delete(records, "current"), outcome |-> "resolved", result |-> TRUE]
  ELSE [store |-> records, outcome |-> "rejected", result |-> FALSE]

\* The catch of repairData (lines 239-250): clearCanvasData, true; false if
\* that fails too.
RepairCatch(records, opens, failDelete) ==
  IF opens /\ ~failDelete
  THEN [store |-> Delete(records, "current"), outcome |-> "resolved", result |-> TRUE]
  ELSE [store |-> records, outcome |-> "resolved", result |-> FALSE]

\* repairData (lines 208-251).  fail says which requests fail: the open of
\* loadCanvasData, its get, the put of saveCanvasData, the open of
\* clearCanvasData if the first did not succeed, its delete.
repairData(fail) ==
  LET opened == Opens(fail.open)
      loaded == opened /\ ~fail.get
      found == GetAll(store, "current")
      data == CHOOSE r \in found : TRUE
      reopened == opened \/ ~fail.reopen
  IN IF ~loaded
     THEN [db |-> reopened, loaded |-> FALSE] @@ RepairCatch(store, reopened, fail.delete)
     ELSE IF found = {}
     THEN [db |-> TRUE, loaded |-> TRUE, store |-> store, outcome |-> "resolved", result |-> TRUE]
     ELSE IF ~fail.put
     THEN [db |-> TRUE, loaded |-> TRUE, outcome |-> "resolved", result |-> TRUE,
           store |-> Put(store, CanvasData(RepairedElements(data), RepairedAppState(data), now))]
     ELSE [db |-> TRUE, loaded |-> TRUE] @@ RepairCatch(store, TRUE, fail.delete)

RepairFailures == [open : BOOLEAN, get : BOOLEAN, put : BOOLEAN, reopen : BOOLEAN, delete : BOOLEAN]

\* init() (lines 56-82)
InitCall(failOpen) ==
  /\ db' = (db \/ ~failOpen)
  /\ ret' = <<"init", IF failOpen THEN "rejected" ELSE "resolved">>
  /\ UNCHANGED <<now, componentVars, payload, scene, store>>

\* saveCanvasData(elements, appState) (lines 84-112)
SaveCanvasDataCall(elements, appState, failOpen, failPut) ==
  /\ db' = Opens(failOpen)
  /\ IF Opens(failOpen) /\ ~failPut
     THEN /\ store' = Put(store, CanvasData(elements, appState, now))
          /\ ret' = <<"save", "resolved", elements, appState, now, store>>
     ELSE /\ store' = store
          /\ ret' = <<"save", "rejected", elements, appState, now, store>>
  /\ UNCHANGED <<now, componentVars, payload, scene>>

\* loadCanvasData() (lines 114-144): the record without its key, or null.
LoadCanvasDataCall(failOpen, failGet) ==
  /\ db' = Opens(failOpen)
  /\ ret' = IF Opens(failOpen) /\ ~failGet
            THEN <<"load", "resolved",
                   {[elements |-> r.elements, appState |-> r.appState, timestamp |-> r.timestamp] :
                      r \in GetAll(store, "current")}>>
            ELSE <<"load", "rejected", {}>>
  /\ UNCHANGED <<now, componentVars, payload, scene, store>>

\* clearCanvasData() (lines 146-166)
ClearCanvasDataCall(failOpen, failDelete) ==
  /\ db' = Opens(failOpen)
  /\ IF Opens(failOpen) /\ ~failDelete
     THEN /\ store' = Delete(store, "current")
          /\ ret' = <<"clear", "resolved">>
     ELSE /\ store' = store
          /\ ret' = <<"clear", "rejected">>
  /\ UNCHANGED <<now, componentVars, payload, scene>>

\* shouldUpdateData(newTimestamp) (lines 174-187)
ShouldUpdateDataCall(newTimestamp, failOpen, failGet) ==
  /\ db' = Opens(failOpen)
  /\ ret' = <<"shouldUpdate", "resolved", newTimestamp, Opens(failOpen) /\ ~failGet,
              shouldUpdateData(newTimestamp, Opens(failOpen) /\ ~failGet)>>
  /\ UNCHANGED <<now, componentVars, payload, scene, store>>

\* repairData() (lines 208-251)
RepairDataCall(fail) ==
  /\ db' = repairData(fail).db
  /\ store' = repairData(fail).store
  /\ ret' = <<"repair", repairData(fail).outcome, repairData(fail).result,
              repairData(fail).loaded, store, now>>
  /\ UNCHANGED <<now, componentVars, payload, scene>>

\* Which requests of a safelyUpdateCanvasData fail: the open and the get of
\* the loadCanvasData under shouldUpdateData, the open of saveCanvasData if
\* no database is open by then, its put.
SafeUpdateFailures == [open : BOOLEAN, get : BOOLEAN, reopen : BOOLEAN, put : BOOLEAN]
NoFailure == [open |-> FALSE, get |-> FALSE, reopen |-> FALSE, put |-> FALSE]

\* safelyUpdateCanvasData (lines 189-205).  sourceTimestamp && ... asks
\* shouldUpdateData only if sourceTimestamp is truthy; 0 stands for 0 and
\* for a sourceTimestamp left out.
safelyUpdateCanvasData(elements, appState, sourceTimestamp, fail) ==
  LET asks == sourceTimestamp # 0
      loaded == Opens(fail.open) /\ ~fail.get
      skips == asks /\ ~shouldUpdateData(sourceTimestamp, loaded)
      saveOpens == IF asks THEN Opens(fail.open) \/ ~fail.reopen ELSE Opens(fail.open)
  IN IF skips
     THEN [db |-> TRUE, store |-> store, result |-> FALSE]
     ELSE IF saveOpens /\ ~fail.put
     THEN [db |-> TRUE, store |-> Put(store, CanvasData(elements, appState, now)),
           result |-> TRUE]
     ELSE [db |-> saveOpens, store |-> store, result |-> FALSE]

\* safelyUpdateCanvasData(elements, appState, sourceTimestamp) (lines 189-205)
SafelyUpdateCanvasDataCall(elements, appState, sourceTimestamp, fail) ==
  /\ db' = safelyUpdateCanvasData(elements, appState, sourceTimestamp, fail).db
  /\ store' = safelyUpdateCanvasData(elements, appState, sourceTimestamp, fail).store
  /\ ret' = <<"safeUpdate", "resolved",
              safelyUpdateCanvasData(elements, appState, sourceTimestamp, fail).result,
              sourceTimestamp, store, CanvasData(elements, appState, now),
              fail = NoFailure>>
  /\ UNCHANGED <<now, componentVars, payload, scene>>

\* Date.now() moves on between two calls.
ClockTick ==
  /\ now < StartTime + MaxClock
  /\ now' = now + 1
  /\ UNCHANGED <<componentVars, callVars>>

\* The timestamps a caller asks shouldUpdateData about.
NewTimestamps == {0} \cup ((StartTime - 2)..(StartTime + MaxClock + 1))

\* The sourceTimestamp safelyUpdateCanvasData is called with: none or 0,
\* that of the record an earlier session left, one later than any save.
SourceTimestamps == {0, StartTime - 1, StartTime + MaxClock + 1}

\* The object store as an earlier session left it: empty, or the one record.
InitStore ==
  /\ now = StartTime
  /\ ComponentIdle
  /\ payload = NoPayload
  /\ scene = NoScene
  /\ store \in {{}} \cup {{CanvasData(e, a, StartTime - 1)} : e \in StoredElements, a \in StoredAppStates}
  /\ db = FALSE
  /\ ret = <<"none">>

NextStore ==
  \/ \E failOpen \in BOOLEAN : InitCall(failOpen)
  \/ \E e \in StoredElements, a \in StoredAppStates, failOpen, failPut \in BOOLEAN :
       SaveCanvasDataCall(e, a, failOpen, failPut)
  \/ \E failOpen, failGet \in BOOLEAN : LoadCanvasDataCall(failOpen, failGet)
  \/ \E failOpen, failDelete \in BOOLEAN : ClearCanvasDataCall(failOpen, failDelete)
  \/ \E t \in NewTimestamps, failOpen, failGet \in BOOLEAN : ShouldUpdateDataCall(t, failOpen, failGet)
  \/ \E fail \in RepairFailures : RepairDataCall(fail)
  \/ \E t \in SourceTimestamps, fail \in SafeUpdateFailures :
       SafelyUpdateCanvasDataCall(Arr("[e1]"), AppState("object", "{}", "dark", "map"), t, fail)
  \/ ClockTick

SpecStore == InitStore /\ [][NextStore]_vars


\* ---- claims ------------------------------------------------------------
\* The step is a call of onChange (by a user edit or by the surface's
\* reaction to an updateScene).
OnChangeStep == EchoNotify \/ \E e \in ElemLists : UserEdit(Doc(e, TRUE))

\* The step hands the observation p to handleCanvasUpdate, the surface
\* being ready.
PushStep(p) == apiRef /\ pushQueue # <<>> /\ Head(pushQueue) = p /\ PushDeliver
PollStep(i) == apiRef /\ PollIsUpdate(inflight[i]) /\ PollResponse(i)

\* The elements an array payload.elements puts on the surface.
ShownEls(p) == IF p.els > 0 THEN p.els ELSE 0

\* C1: an observation with timestamp T2 is applied to the live surface and
\* persisted iff there is no cache record or T2 > T1, the record's
\* timestamp; otherwise surface and cache stay as they are.
C1_AdoptIffNewer ==
  [][ /\ \A i \in DOMAIN inflight :
           PollStep(i) =>
             IF ~cache.present \/ inflight[i].ts > cache.ts
             THEN surface'.els = ShownEls(inflight[i]) /\ dbQueue' # dbQueue
             ELSE UNCHANGED <<surface, cache, dbQueue>>
      /\ pushQueue # <<>> =>
           (PushStep(Head(pushQueue)) =>
             IF ~cache.present \/ Head(pushQueue).ts > cache.ts
             THEN surface'.els = ShownEls(Head(pushQueue)) /\ dbQueue' # dbQueue
             ELSE UNCHANGED <<surface, cache, dbQueue>>) ]_vars

\* C2: a change notification received while isUpdatingFromRestore is set
\* schedules and cancels no debounced write, leaves the last-saved hash,
\* writes nothing to the cache and sends nothing to the remote service.
C2_SuppressedNotificationIsDropped ==
  [][ (OnChangeStep /\ isUpdatingFromRestore) =>
        UNCHANGED <<debounceVars, dbVars, remoteVars, inflight, initResp>> ]_vars

\* C2 witness: a notification has just been received with the flag set.
C2_Witness == ev[1] \in {"echo", "userEdit"} /\ ev[2]

\* C3: for 100 ms after every apply of handleCanvasUpdate (while one of its
\* 100 ms timers still has its deadline ahead) the flag is set.
C3_FlagHeldAfterApply ==
  (\E t \in flagTimers : t > now) => isUpdatingFromRestore

\* C4: the notification the surface emits for the startup apply schedules no
\* debounced write and causes no cache write.
C4_StartupEchoSuppressed ==
  [][ (EchoNotify /\ echoPending = "restore") =>
        UNCHANGED <<debounceVars, dbVars>> ]_vars

\* C5: after each unsuppressed user edit (every edit changes the document)
\* the one debounced write is pending, due within 300 ms, and what it will
\* write is that edit's content.
C5_BurstYieldsOneWrite ==
  (ev[1] = "userEdit" /\ ~ev[2]) =>
    /\ saveTimeoutRef.set
    /\ saveTimeoutRef.doc = surface
    /\ saveTimeoutRef.due <= now + DebounceDelay

\* The serialization of the record the cache holds ('' when it holds none).
PersistedHash == IF cache.present THEN DataHash(Doc(cache.els, cache.norm)) ELSE <<>>

\* The scene an onChange step is called with.
NotifiedScene == surface'

\* C6: an unsuppressed notification does nothing iff its serialization
\* equals that of the last write persisted to the cache; otherwise it
\* schedules a write.
C6_SkipIffEqualsPersisted ==
  [][ (OnChangeStep /\ ~isUpdatingFromRestore) =>
        IF DataHash(NotifiedScene) = PersistedHash
        THEN UNCHANGED debounceVars
        ELSE saveTimeoutRef' =
               [set |-> TRUE, due |-> now + DebounceDelay, doc |-> NotifiedScene] ]_vars

\* C7: the observation applied last (a document with elements), delivered
\* again, writes nothing to the cache.
C7_SecondApplyWritesNothing ==
  [][ /\ \A i \in DOMAIN inflight :
           (PollResponse(i) /\ inflight[i] = lastObs /\ lastObs.els > 0)
             => dbQueue' = dbQueue
      /\ (PushStep(lastObs) /\ lastObs.els > 0) => dbQueue' = dbQueue ]_vars

\* C8: every observation the poll channel forwards has an updated_at
\* greater than the one it forwarded before.
C8_PollAppliedIncreasing ==
  [][ \A i \in DOMAIN inflight :
        PollStep(i) => inflight[i].ts > lastUpdateTime ]_vars

\* C9: a poll response whose updated_at is that of a remote document applied
\* before (at startup or by a poll) leaves surface and cache as they are.
C9_SameStampNotReapplied ==
  [][ \A i \in DOMAIN inflight :
        (PollResponse(i) /\ inflight[i].ts \in adopted) =>
          UNCHANGED <<surfaceVars, dbVars>> ]_vars

\* The remote document whose save has just completed into an empty cache:
\* by handleCanvasUpdate, or by the startup restore.
AdoptedIntoEmpty ==
  \/ ev[1] = "adoptSaved" /\ ~ev[2]
  \/ ev[1] = "startupAdopt" /\ ~ev[2]
AdoptedDoc == IF ev[1] = "adoptSaved" THEN ev[3] ELSE backendData

\* C10 as amended: a remote document applied by handleCanvasUpdate is on the
\* surface right after the apply, the startup document right after its
\* save; the record saved for a remote document into an empty cache holds
\* that document's elements and the time of the local clock at the save.
C10_AdoptedRecordStampedNow ==
  /\ ev[1] = "applied" => surface.els = ShownEls(ev[2])
  /\ (ev[1] = "startupAdopt" /\ ~ev[2]) => surface.els = backendData.els
  /\ AdoptedIntoEmpty =>
       /\ cache.present
       /\ cache.els = AdoptedDoc.els
       /\ cache.ts = now

\* C10 witness: the save of a remote document of one element has completed
\* into an empty cache, the document being on the surface.
C10_Witness ==
  /\ AdoptedIntoEmpty
  /\ cache.present
  /\ AdoptedDoc.els > 0
  /\ surface.els = AdoptedDoc.els

\* C10 as claimed: the document is on the surface, and the record saved for
\* it into an empty cache carries the document's updated_at.
C10_RecordStampedUpdatedAt ==
  /\ ev[1] = "applied" => surface.els = ShownEls(ev[2])
  /\ (ev[1] = "startupAdopt" /\ ~ev[2]) => surface.els = backendData.els
  /\ AdoptedIntoEmpty =>
       /\ cache.present
       /\ cache.els = AdoptedDoc.els
       /\ cache.ts = AdoptedDoc.ts

\* The delete request handleCanvasUpdate issues for an empty document.
DeleteRequest == [op |-> "delete", rec |-> NoRecord, owner |-> "update", src |-> NoObs]

\* C11: an observation of zero elements that handleCanvasUpdate applies
\* empties the surface and issues the delete of the record, which leaves no
\* record when it completes; nothing is sent to the remote service and its
\* canvas stays as it is.
C11_ZeroElementsClear ==
  [][ /\ \A i \in DOMAIN inflight :
           (inflight[i].els = 0 /\ PollStep(i)) =>
             /\ surface' = EmptyDoc
             /\ dbQueue' = Append(dbQueue, DeleteRequest)
             /\ inflight' = RemoveAt(inflight, i)
             /\ UNCHANGED <<remoteVars, initResp>>
      /\ pushQueue # <<>> =>
           ((Head(pushQueue).els = 0 /\ PushStep(Head(pushQueue))) =>
             /\ surface' = EmptyDoc
             /\ dbQueue' = Append(dbQueue, DeleteRequest)
             /\ UNCHANGED <<remoteVars, initResp, inflight>>)
      /\ dbQueue # <<>> =>
           ((Head(dbQueue).op = "delete" /\ dbOpens /\ DbComplete) =>
             cache' = NoRecord) ]_vars

\* C11 witness: the delete issued for an applied observation of zero
\* elements has completed; there was a record of one element, now there is
\* none, and the surface is empty.
C11_Witness ==
  /\ ev[1] = "cleared"
  /\ ev[2]
  /\ ev[3] > 0
  /\ lastObs.els = 0
  /\ lastObs.ts > 0
  /\ ~cache.present
  /\ surface = EmptyDoc

\* The startup read has answered with a document (data.canvas.elements).
RemoteDocumentRead ==
  initResp.sent /\ ~initResp.pending /\ initResp.ok /\ initResp.els # NotArray

\* C12: when the startup read answers with a document, it is saved and
\* restored: after its save the surface and the record hold its elements,
\* whatever the record held before; the local record is loaded for the
\* restore only when the read brought no document.
C12_RemoteAuthoritativeAtStartup ==
  /\ RemoteDocumentRead => (initPc \in {"save", "done"} /\ backendData.has)
  /\ ev[1] = "startupAdopt" =>
       /\ RemoteDocumentRead
       /\ surface.els = backendData.els
       /\ cache.present
       /\ cache.els = backendData.els
  /\ (initPc = "load" \/ ev[1] = "startupLocal") => ~RemoteDocumentRead

\* C12 witness: the remote document has been restored over a record of
\* other elements.
C12_Witness ==
  /\ ev[1] = "startupAdopt"
  /\ ev[2]
  /\ ev[3] # backendData.els
  /\ surface.els = backendData.els

\* C13: when the startup read fails the local record is loaded; what is
\* loaded is restored when there is a record; when there is none the
\* surface stays as it is and the startup writes nothing to the cache
\* (repairData and the restore issue no save).
C13_FallbackToLocalRecord ==
  [][ /\ (StartupResponse /\ ~initResp.ok) => initPc' = "load"
      /\ StartupLoaded =>
           /\ UNCHANGED cache
           /\ dbQueue' = Tail(dbQueue)
           /\ IF cache.present
              THEN surface'.els = cache.els
              ELSE UNCHANGED surfaceVars
      /\ (RepairLoaded /\ ~cache.present) => dbQueue' = Tail(dbQueue) ]_vars

\* C13 witness: the read failed and the local record, of one element, has
\* been restored.
C13_Witness ==
  /\ ev = <<"startupLocal", TRUE>>
  /\ initResp.sent
  /\ ~initResp.ok
  /\ cache.els > 0
  /\ surface.els = cache.els

\* C14: when the database cannot be opened, initializeStorage still issues
\* the startup read before it ends.
C14_StartupReadsWithoutStore ==
  (~dbOpens /\ initPc = "done") => initResp.sent

\* Nothing is pending and every later poll finds the updated_at it saw last.
Quiescent ==
  /\ mounted
  /\ dbOpens
  /\ initPc = "done"
  /\ ~initResp.pending
  /\ dbQueue = <<>>
  /\ echoPending = "none"
  /\ ~saveTimeoutRef.set
  /\ flagTimers = {}
  /\ inflight = <<>>
  /\ lastUpdateTime = remoteTs

\* The elements of the record (none when there is no record).
CacheEls == IF cache.present THEN cache.els ELSE 0

\* C15, for executions whose only writer is the remote service (no live
\* edit): once nothing is pending, surface, cache and remote service hold
\* the same elements.
C15_QuiescentDocumentsEqual ==
  (Quiescent /\ edits = 0) =>
    /\ surface.els = ShownEls(CanvasResponse)
    /\ CacheEls = ShownEls(CanvasResponse)

\* C16: the canvas of the remote service changes only by the writes of
\* other clients: no step of the component changes it.
C16_RemoteNeverWritten ==
  [][ (remoteEls' # remoteEls \/ remoteTs' # remoteTs \/ remoteWrites' # remoteWrites)
        => \E e \in RemoteElems : RemoteWrite(e) ]_vars

\* C16 witness: a debounced local write has completed and the remote
\* service holds other elements.
C16_Witness ==
  /\ ev[1] = "localSaved"
  /\ cache.present
  /\ cache.els # ShownEls(CanvasResponse)

\* C17: after the teardown no excalidraw_draw listener is registered.
C17_ListenerReleasedOnTeardown == ~mounted => ~listening

\* C18: after the teardown no debounce timer is pending, no poll request is
\* issued and no debounced save is issued.
C18_TimersClearedOnTeardown ==
  [][ ~mounted =>
        /\ ~saveTimeoutRef.set
        /\ pollNext' = pollNext
        /\ Len(inflight') <= Len(inflight)
        /\ Len(dbQueue') > Len(dbQueue) =>
             dbQueue'[Len(dbQueue')].owner # "debounce" ]_vars

\* C18 witness: the teardown found a debounce timer pending, in poll mode.
C18_Witness ==
  /\ ev[1] = "teardown"
  /\ ev[2]
  /\ ~isTauri
  /\ ~mounted

\* C19: a poll tick whose read fails leaves surface, cache, last-seen
\* updated_at, flag and debounce state as they are, and the interval goes
\* on: the next tick is due one period later.
C19_FailedPollChangesNothing ==
  [][ (PollTick /\ inflight' = inflight) =>
        /\ UNCHANGED <<surfaceVars, dbVars, lastUpdateTime, echoVars, debounceVars>>
        /\ pollNext' = pollNext + PollPeriod
        /\ pollNext' # NoPoll ]_vars

\* C19 witness: a poll read has just failed.
C19_Witness == ev = <<"pollFailed">> /\ pollNext > now

\* C20: a document put on the surface by the startup restore or by
\* handleCanvasUpdate has every field the normalization fills.
C20_AppliedDocumentsNormalized ==
  (ev[1] \in {"startupAdopt", "applied"} \/ ev = <<"startupLocal", TRUE>>)
    => surface.norm

\* ---- claims about the documents handed to updateScene ------------------
\* The elements of the payload and those handed to updateScene, when the
\* latter came out of the normalization.
Normalized == scene.site \in {"update", "fallback"}
GivenElements == payload.elements.items
AppliedElements == scene.elements.items
PathTypes == {Str("line"), Str("arrow"), Str("freedraw")}

\* C21: whatever appState arrives (absent, null, not an object, an object
\* whose collaborators is absent, an array, a plain object or a Map), the
\* appState of every updateScene call is an object whose collaborators is
\* a Map.
C21_CollaboratorsAlwaysMap ==
  scene # NoScene => (scene.appState.t = "object" /\ scene.appState.collaborators = "map")

\* C21 happens: collaborators arrived as an array and a Map was applied.
C21_Witness ==
  /\ scene.site = "restore"
  /\ payload.appState.collaborators = "array"
  /\ scene.appState.collaborators = "map"

\* The properties an element has to have: those the interface
\* ExcalidrawElement of indexedDBService.ts declares without '?' (lines
\* 5-30) and those of its type.
ExcalidrawElementFields ==
  {"id", "type", "x", "y", "width", "height", "angle", "strokeColor", "backgroundColor",
   "fillStyle", "strokeWidth", "strokeStyle", "roughness", "opacity", "groupIds",
   "frameId", "index", "roundness", "seed", "version", "versionNonce", "isDeleted",
   "boundElements", "updated", "link", "locked"}

RequiredFields(ty) == ExcalidrawElementFields \cup TypeFields(ty)

\* An element given by { id, type, x, y, width, height } alone.
GivenBare(c) == DOMAIN c = {"id", "type", "x", "y", "width", "height"}

\* C22: an element given by { id, type, x, y, width, height } alone comes
\* out of the normalization with every required property, common or of its
\* type.
C22_BareElementComplete ==
  Normalized =>
    \A i \in 1..Len(GivenElements) :
      GivenBare(GivenElements[i]) =>
        RequiredFields(GivenElements[i].type) \subseteq DOMAIN AppliedElements[i]

\* The documented defaults of the common properties.
DocumentedDefault(f) ==
  CASE f = "groupIds" -> Arr("[]")
    [] f \in {"boundElements", "link", "frameId"} -> Null
    [] f \in {"locked", "isDeleted"} -> Bool(FALSE)
    [] f = "opacity" -> Num(100)
    [] f \in {"roughness", "strokeWidth", "version"} -> Num(1)
    [] f = "angle" -> Num(0)
    [] f = "strokeColor" -> Str("#000000")
    [] OTHER -> Str("transparent")

DefaultedFields == {"groupIds", "boundElements", "link", "frameId", "locked", "isDeleted",
                    "opacity", "roughness", "strokeWidth", "angle", "version",
                    "strokeColor", "backgroundColor"}

\* C23: every common property an incoming element lacks has its
\* documented default in the normalized element.
C23_MissingCommonFieldsDefaulted ==
  Normalized =>
    \A i \in 1..Len(GivenElements) :
      \A f \in DefaultedFields \ DOMAIN GivenElements[i] :
        AppliedElements[i][f] = DocumentedDefault(f)

\* C23 happens: an element with none of the common properties was
\* normalized, next to one that has them all.
C23_Witness ==
  /\ Normalized
  /\ Len(GivenElements) = 2
  /\ DefaultedFields \subseteq DOMAIN GivenElements[1]
  /\ DefaultedFields \cap DOMAIN GivenElements[2] = {}
  /\ AppliedElements[2].opacity = Num(100)

\* C24: a line or arrow without points gets [[0,0],[100,100]] and null
\* bindings, a freedraw without points gets empty points and pressures and
\* simulatePressure false, and an array of points that is given is kept.
C24_PathPointsDefaulted ==
  Normalized =>
    \A i \in 1..Len(GivenElements) :
      LET c == GivenElements[i]
          e == AppliedElements[i]
      IN /\ (c.type \in {Str("line"), Str("arrow")} /\ "points" \notin DOMAIN c) =>
              /\ e.points = Arr("[[0,0],[100,100]]")
              /\ e.startBinding = Null
              /\ e.endBinding = Null
         /\ (c.type = Str("freedraw") /\ "points" \notin DOMAIN c) =>
              /\ e.points = Arr("[]")
              /\ e.pressures = Arr("[]")
              /\ e.simulatePressure = Bool(FALSE)
         /\ (c.type \in PathTypes /\ IsArray(Get(c, "points"))) => e.points = c.points

\* C24 happens: an arrow without points and a freedraw without points were
\* normalized together.
C24_Witness ==
  /\ Normalized
  /\ Len(GivenElements) = 2
  /\ GivenElements[1].type = Str("arrow")
  /\ GivenElements[2].type = Str("freedraw")
  /\ "points" \notin DOMAIN GivenElements[1] \cup DOMAIN GivenElements[2]
  /\ AppliedElements[1].points = Arr("[[0,0],[100,100]]")
  /\ AppliedElements[2].points = Arr("[]")

\* C25: the ids of the elements of a normalized document are pairwise
\* distinct.
C25_IdsPairwiseDistinct ==
  Normalized =>
    \A i, j \in 1..Len(AppliedElements) :
      i # j => AppliedElements[i].id # AppliedElements[j].id

\* C26, as the code has it: every line, arrow and freedraw of a normalized
\* document has an array of points; it has two points for a line or arrow
\* given without an array of points, none for a freedraw given without,
\* and is the given array otherwise, empty or not.
C26_PathHasPointArray ==
  Normalized =>
    \A i \in 1..Len(AppliedElements) :
      LET c == GivenElements[i]
          e == AppliedElements[i]
      IN e.type \in PathTypes =>
           /\ IsArray(e.points)
           /\ ArrayLength(e.points) =
                IF IsArray(Get(c, "points")) THEN ArrayLength(c.points)
                ELSE IF e.type = Str("freedraw") THEN 0 ELSE 2

\* C26 happens: a line and a freedraw, both without points, were
\* normalized together.
C26_Witness ==
  /\ Normalized
  /\ Len(GivenElements) = 2
  /\ GivenElements[1].type = Str("line")
  /\ GivenElements[2].type = Str("freedraw")
  /\ "points" \notin DOMAIN GivenElements[1] \cup DOMAIN GivenElements[2]
  /\ ArrayLength(AppliedElements[1].points) = 2
  /\ ArrayLength(AppliedElements[2].points) = 0

\* C26 as stated: every line, arrow and freedraw of a normalized document
\* has an array of at least one point.
C26_PathHasAPoint ==
  Normalized =>
    \A i \in 1..Len(AppliedElements) :
      AppliedElements[i].type \in PathTypes =>
        (IsArray(AppliedElements[i].points) /\ ArrayLength(AppliedElements[i].points) >= 1)

\* ---- claims about indexedDBService -------------------------------------
\* C27: the object store holds at most one record, under the key 'current',
\* and after a save that succeeded that record is the elements and appState
\* of the call stamped with the time of the call, nothing else.
C27_SingletonRecordOverwritten ==
  /\ Cardinality(store) <= 1
  /\ \A r \in store : r.id = "current"
  /\ (ret[1] = "save" /\ ret[2] = "resolved") =>
       store = {[id |-> "current", elements |-> ret[3], appState |-> ret[4], timestamp |-> ret[5]]}

\* C27 happens: a save replaced an older record of other content.
C27_Witness ==
  /\ ret[1] = "save" /\ ret[2] = "resolved"
  /\ ret[6] = {CanvasData(Str("none"), AppState("array", "[]", "absent", "absent"), StartTime - 1)}
  /\ store = {CanvasData(Arr("[e1]"), EmptyAppState, StartTime + 2)}

\* C28: when the record can be read, shouldUpdateData(newTimestamp) is true
\* if and only if there is no record or newTimestamp is greater than the
\* record's timestamp; for an equal timestamp it is false.
C28_ShouldUpdateIffStrictlyNewer ==
  (ret[1] = "shouldUpdate" /\ ret[4]) =>
    (ret[5] <=> (store = {} \/ \E r \in store : ret[3] > r.timestamp))

\* C28 happens: shouldUpdateData was asked about the timestamp of the
\* record and said no.
C28_Witness ==
  /\ ret[1] = "shouldUpdate" /\ ret[4]
  /\ \E r \in store : ret[3] = r.timestamp
  /\ ~ret[5]

\* C29: repairData never rejects; it resolves to true or false, and when
\* the record could not be loaded it resolves to true only with the store
\* cleared.
C29_RepairNeverRaises ==
  ret[1] = "repair" =>
    /\ ret[2] = "resolved"
    /\ ret[3] \in BOOLEAN
    /\ (~ret[4] /\ ret[3]) => store = {}

\* C29 happens: the load failed with a record in the store, and repairData
\* cleared the store and returned true.
C29_Witness ==
  /\ ret[1] = "repair" /\ ~ret[4] /\ ret[3]
  /\ ret[5] # {}
  /\ store = {}

\* A mapping: an object that is neither null nor an array.
IsMapping(x) == x.t = "object"

\* C30: after repairData returned true on a record whose elements is no
\* array or whose appState is no mapping, the record in the store has an
\* array of elements, a mapping for appState and a number for timestamp.
C30_RepairedRecordWellFormed ==
  (/\ ret[1] = "repair" /\ ret[3]
   /\ \E r \in ret[5] : ~IsArray(r.elements) \/ ~IsMapping(r.appState)) =>
    \A r \in store :
      IsArray(r.elements) /\ IsMapping(r.appState) /\ r.timestamp \in Nat

\* ---- claims about the synchronisation, continued -----------------------
\* C31: whenever isUpdatingFromRestore is set, a timer that clears it is
\* pending and due within 100 ms, also when updateScene threw.
C31_FlagHasClearingTimer ==
  isUpdatingFromRestore => \E t \in flagTimers : t <= now + EchoDelay

\* The debounce timer fires in this step.
DebounceFires == saveTimeoutRef.set /\ ~saveTimeoutRef'.set /\ mounted'

\* C32: when the debounce timer fires and the scene was last changed by a
\* remote document or clear that handleCanvasUpdate applied, the document
\* it writes to the cache is the one on the surface.
C32_DebouncedWriteNotStale ==
  [][(DebounceFires /\ surfaceBy = "update" /\ lastObs.els # NotArray)
       => saveTimeoutRef.doc = surface]_vars

\* The restore of the startup's backend data happens in this step.
StartupRestores == initPc = "save" /\ initPc' = "done" /\ apiRef

\* C33: when the startup restores the remote document it read and a newer
\* remote document, observed by poll or push, was the last to change the
\* surface, the surface keeps the newer document.
C33_StartupKeepsNewerDocument ==
  [][(StartupRestores /\ surfaceBy = "update" /\ lastObs.els # NotArray
         /\ lastObs.ts > backendData.ts)
       => surface'.els = ShownEls(lastObs)]_vars

\* C34: when nothing is pending and the scene was last changed by a user
\* edit whose notification came while isUpdatingFromRestore was set, the
\* record holds the elements of the surface.
C34_SuppressedEditPersisted ==
  (Quiescent /\ surfaceBy = "suppressedEdit" /\ lastObs.els # NotArray)
    => CacheEls = surface.els

\* A put or delete request is issued in this step.
IssuesWrite ==
  \E i \in DOMAIN dbQueue' :
    /\ dbQueue'[i].op # "get"
    /\ \A j \in DOMAIN dbQueue : dbQueue[j] # dbQueue'[i]

\* C35: a remote observation whose elements is absent or no array leaves
\* the elements of the surface as they are and issues no write to the cache.
C35_MalformedObservationIgnored ==
  [][ /\ \A i \in DOMAIN inflight :
           (PollStep(i) /\ inflight[i].els = NotArray) =>
             (surface' = surface /\ ~IssuesWrite)
      /\ pushQueue # <<>> =>
           ((PushStep(Head(pushQueue)) /\ Head(pushQueue).els = NotArray) =>
              (surface' = surface /\ ~IssuesWrite)) ]_vars

\* C36: lastUpdateTime of the poll moves to an updated_at only in a step
\* in which the document with that updated_at is applied to the surface.
C36_LastSeenOnlyWhenApplied ==
  [][lastUpdateTime' # lastUpdateTime =>
       (surfaceBy' = "update" /\ lastObs'.ts = lastUpdateTime'
        /\ surface'.els = ShownEls(lastObs'))]_vars

\* C37: once the component is unmounted (its startup over), no step
\* changes the surface and none issues a write to the cache.
C37_NothingAfterTeardown ==
  [][(~mounted /\ initPc = "done") => (surface' = surface /\ ~IssuesWrite)]_vars

\* ---- claims about repairData and safelyUpdateCanvasData -----------------
\* C38: after repairData loaded a record whose elements is an array and
\* whose appState is a mapping (its timestamp is a number) and saved it
\* again, the store holds the record as it was, timestamp included.
C38_RepairLeavesWellFormedRecord ==
  (/\ ret[1] = "repair" /\ ret[3] /\ ret[4]
   /\ ret[5] # {}
   /\ \A r \in ret[5] : IsArray(r.elements) /\ IsMapping(r.appState)
   /\ store # {}) =>
    store = ret[5]

\* The numeric properties baseElement reads with Number(x) || default or
\* x || random.
SuppliedNumberFields == {"opacity", "roughness", "strokeWidth", "version", "seed", "versionNonce"}

\* C39: a number an incoming element gives for opacity, roughness,
\* strokeWidth, version, seed or versionNonce, 0 included, and an
\* endArrowhead it gives, null included, are the values of the normalized
\* element.
C39_SuppliedValuesKept ==
  Normalized =>
    \A i \in 1..Len(GivenElements) :
      LET c == GivenElements[i]
          e == AppliedElements[i]
      IN /\ \A f \in SuppliedNumberFields \cap DOMAIN c :
              c[f].t = "number" => e[f] = c[f]
         /\ "endArrowhead" \in DOMAIN c => e.endArrowhead = c.endArrowhead

\* C40: safelyUpdateCanvasData resolves; when no request fails it returns
\* false and leaves the store as it is if there is a record and
\* sourceTimestamp is not greater than its timestamp, and otherwise puts
\* the document and returns true, whatever sourceTimestamp is, 0 included.
C40_SafeUpdateContract ==
  ret[1] = "safeUpdate" =>
    /\ ret[2] = "resolved"
    /\ ret[7] =>
         IF ret[5] # {} /\ ret[4] <= getLastUpdateTime(ret[5])
         THEN ~ret[3] /\ store = ret[5]
         ELSE ret[3] /\ store = Put(ret[5], ret[6])
====
